---- MODULE Spec2Model ----
(***************************************************************************)
(* Model of the simplex step engine of aliamerj/simplex: the pure          *)
(* function solveStepMode (advance), the auto-solve loop doSimplex, the    *)
(* two constructors of the initial state (artificial basis and user        *)
(* supplied basis) and the React hook that holds the step history.         *)
(*                                                                         *)
(* JavaScript numbers are modelled by exact rationals <<num, den>> with    *)
(* den > 0 in lowest terms, plus the three IEEE specials NaN = <<0,0>>,    *)
(* Infinity = <<1,0>> and -Infinity = <<-1,0>>.  `undefined` read from an  *)
(* array out of range is modelled by NaN: every place the code reads such  *)
(* a value uses it only in arithmetic and comparisons, where the two       *)
(* coincide.  Rounding error of binary floating point is not modelled.     *)
(* Array positions stored in the program state (potentialPivots,           *)
(* selectedPivotIndex) keep their 0-based JavaScript values.               *)
(***************************************************************************)
EXTENDS Integers, Sequences, FiniteSets, TLC

\* ------------------------------------------------------------------ bounds
\* Right-hand sides of the enumerated problems range over -MaxRhs..MaxRhs.
MaxRhs == 1
\* Pivot indices offered to an advance call range over -1..MaxPivotIndex.
MaxPivotIndex == 1
\* The hook is followed while the history it advances from holds fewer than
\* MaxSteps steps.
MaxSteps == 5

\* EPS = 1e-10 = 1 / (EpsRoot * EpsRoot); kept as a square root so that every
\* comparison against EPS stays inside 32-bit integers.
EpsRoot == 100000

\* ----------------------------------------------------------------- numbers
RECURSIVE Gcd(_, _)
Gcd(a, b) == IF b = 0 THEN a ELSE Gcd(b, a % b)

Abs(i) == IF i < 0 THEN -i ELSE i
Sign(i) == IF i < 0 THEN -1 ELSE IF i > 0 THEN 1 ELSE 0

NaN == <<0, 0>>
Infinity == <<1, 0>>
Zero == <<0, 1>>
One == <<1, 1>>

\* The number n/d, d # 0, in lowest terms with a positive denominator.
Rat(n, d) ==
  LET g == Gcd(Abs(n), Abs(d))
      s == IF d < 0 THEN -1 ELSE 1
  IN <<s * (n \div g), s * (d \div g)>>

\* An integer of the problem data as a number.
R(i) == <<i, 1>>

IsNaN(x) == x = NaN
IsInf(x) == x[2] = 0 /\ x[1] # 0
IsFinite(x) == x[2] # 0

RNeg(x) == <<-x[1], x[2]>>

RAdd(x, y) ==
  IF IsNaN(x) \/ IsNaN(y) THEN NaN
  ELSE IF IsInf(x) /\ IsInf(y) THEN (IF x = y THEN x ELSE NaN)
  ELSE IF IsInf(x) THEN x
  ELSE IF IsInf(y) THEN y
  ELSE Rat(x[1] * y[2] + y[1] * x[2], x[2] * y[2])

RSub(x, y) == RAdd(x, RNeg(y))

RMul(x, y) ==
  IF IsNaN(x) \/ IsNaN(y) THEN NaN
  ELSE IF IsInf(x) \/ IsInf(y)
       THEN (IF x[1] = 0 \/ y[1] = 0 THEN NaN ELSE <<Sign(x[1]) * Sign(y[1]), 0>>)
  ELSE Rat(x[1] * y[1], x[2] * y[2])

RDiv(x, y) ==
  IF IsNaN(x) \/ IsNaN(y) THEN NaN
  ELSE IF IsInf(x) THEN (IF IsInf(y) THEN NaN
                         ELSE <<x[1] * (IF y[1] < 0 THEN -1 ELSE 1), 0>>)
  ELSE IF IsInf(y) THEN Zero
  ELSE IF y[1] = 0 THEN (IF x[1] = 0 THEN NaN ELSE <<Sign(x[1]), 0>>)
  ELSE Rat(x[1] * y[2], x[2] * y[1])

\* JavaScript x < y: false as soon as one side is NaN.
RLt(x, y) ==
  IF IsNaN(x) \/ IsNaN(y) THEN FALSE
  ELSE IF IsInf(x) /\ IsInf(y) THEN x[1] < y[1]
  ELSE x[1] * y[2] < y[1] * x[2]

\* JavaScript x >= y.
RGe(x, y) == ~IsNaN(x) /\ ~IsNaN(y) /\ ~RLt(x, y)

\* JavaScript x === 0 and x !== 0 (NaN !== 0 is true).
IsZero(x) == x = Zero
NotZero(x) == x # Zero

\* For a finite x = n/d with n > 0: x > EPS, that is n * 10^10 > d.
FracGtEps(n, d) == ((d \div n) \div EpsRoot) < EpsRoot
\* For a finite x = n/d with n > 0: x >= EPS, that is n * 10^10 >= d.
FracGeEps(n, d) == (((d - 1) \div n) \div EpsRoot) < EpsRoot

\* x > EPS and x < -EPS on JavaScript numbers.
GtEps(x) ==
  IF IsNaN(x) THEN FALSE
  ELSE IF IsInf(x) THEN x[1] > 0
  ELSE x[1] > 0 /\ FracGtEps(x[1], x[2])

LtNegEps(x) == GtEps(RNeg(x))

\* Math.abs(x) < 1e-10
AbsLtEps(x) ==
  IF ~IsFinite(x) THEN FALSE
  ELSE x[1] = 0 \/ ~FracGeEps(Abs(x[1]), x[2])

\* Math.abs(x) > 1e-10
AbsGtEps(x) == GtEps(x) \/ LtNegEps(x)

neg(x) == LtNegEps(x)
pos(x) == GtEps(x)
zero(x) == AbsLtEps(x)

\* ------------------------------------------------------- arrays and labels
\* a[i] for a 0-based JavaScript index i; NaN where JavaScript gives undefined.
At(a, i) == IF i >= 0 /\ i < Len(a) THEN a[i + 1] ELSE NaN
\* m[r][c]; NaN where JavaScript gives undefined (the row exists).
Cell(m, r, c) == IF r >= 0 /\ r < Len(m) THEN At(m[r + 1], c) ELSE NaN

\* A sequence given as a function on 1..n, evaluated once into a tuple.
Arr(f) == <<>> \o f

\* The array a with a[i] = v, for a 0-based i inside the array.
Put(a, i, v) == Arr([k \in 1..Len(a) |-> IF k = i + 1 THEN v ELSE a[k]])

\* a[i] = v for 0 <= i <= a.length (writing at a.length appends).
SetAt(a, i, v) == IF i < Len(a) THEN Put(a, i, v) ELSE Append(a, v)

\* arr.filter((_, i) => i !== k)
RemoveAt(a, k) ==
  Arr([j \in 1..(Len(a) - (IF k >= 0 /\ k < Len(a) THEN 1 ELSE 0)) |->
     IF j <= k THEN a[j] ELSE a[j + 1]])

\* The template string `x${i}` and the index parsed back from a label
\* (parseInt(label.substring(1)) / Number(label.slice(1))).
Label(i) == <<"x", i>>
ParseIndex(l) == l[2]

cloneM(m) == Arr([i \in 1..Len(m) |-> Arr([j \in 1..Len(m[i]) |-> m[i][j]])])
cloneA(a) == Arr([i \in 1..Len(a) |-> a[i]])

\* problem.objectiveCoefficients[idx] ?? 0 for a 0-based idx.
ObjCoeff(problem, idx) ==
  IF idx >= 0 /\ idx < Len(problem.objectiveCoefficients)
  THEN R(problem.objectiveCoefficients[idx + 1]) ELSE Zero

\* ------------------------------------------------------ tableau primitives
buildMatrix(problem) ==
  Arr([i \in 1..problem.numConstraints |->
     Arr([j \in 1..(problem.numVariables + 1) |->
        IF j <= problem.numVariables
        THEN R(problem.constraintMatrix[i][j])
        ELSE R(problem.rightHandSide[i])])])

\* A normalization that negates only the right-hand side entry of a row.
normalizeRhsOnlyRhs(matrix) ==
  LET rhsIndex == Len(matrix[1]) - 1
  IN Arr([row \in 1..Len(matrix) |->
        IF RGe(At(matrix[row], rhsIndex), Zero)
        THEN matrix[row]
        ELSE Arr([col \in 1..Len(matrix[row]) |->
                IF col = rhsIndex + 1 THEN RMul(matrix[row][col], R(-1))
                ELSE matrix[row][col]])])

normalizeRhs(matrix) ==
  LET rhsIndex == Len(matrix[1]) - 1
  IN Arr([row \in 1..Len(matrix) |->
        IF RGe(At(matrix[row], rhsIndex), Zero)
        THEN matrix[row]
        ELSE Arr([col \in 1..Len(matrix[row]) |-> RMul(matrix[row][col], R(-1))])])

\* Minus the column sums of the matrix, the right-hand side column included.
RECURSIVE ColSum(_, _, _)
ColSum(matrix, j, i) ==
  IF i > Len(matrix) THEN Zero
  ELSE RAdd(matrix[i][j], ColSum(matrix, j, i + 1))

\* A target row of column sums that are not negated.
buildTargetFunctionNotNegated(matrix) ==
  Arr([j \in 1..Len(matrix[1]) |-> ColSum(matrix, j, 1)])

\* A target row that leaves the right-hand side entry at 0.
buildTargetFunctionWithoutRhs(matrix) ==
  Arr([j \in 1..Len(matrix[1]) |->
     IF j = Len(matrix[1]) THEN Zero ELSE RNeg(ColSum(matrix, j, 1))])

buildTargetFunction(matrix) ==
  Arr([j \in 1..Len(matrix[1]) |-> RNeg(ColSum(matrix, j, 1))])

\* A pivot that does not divide the pivot row by the pivot element.
performPivotUnscaled(matrix, pivotRow, pivotCol) ==
  Arr([i \in 1..Len(matrix) |->
     IF i = pivotRow + 1 THEN matrix[i]
     ELSE Arr([j \in 1..Len(matrix[i]) |->
             RSub(matrix[i][j],
                  RMul(At(matrix[i], pivotCol), At(matrix[pivotRow + 1], j - 1)))])])

\* A pivot that eliminates the pivot column only from the rows below the
\* pivot row.
performPivotBelowOnly(matrix, pivotRow, pivotCol) ==
  LET pivotElement == Cell(matrix, pivotRow, pivotCol)
      prow == Arr([j \in 1..Len(matrix[pivotRow + 1]) |->
                 RDiv(matrix[pivotRow + 1][j], pivotElement)])
  IN Arr([i \in 1..Len(matrix) |->
        IF i = pivotRow + 1 THEN prow
        ELSE IF i < pivotRow + 1 THEN matrix[i]
        ELSE LET factor == At(matrix[i], pivotCol)
             IN Arr([j \in 1..Len(matrix[i]) |->
                   RSub(matrix[i][j], RMul(factor, At(prow, j - 1)))])])

performPivot(matrix, pivotRow, pivotCol) ==
  LET pivotElement == Cell(matrix, pivotRow, pivotCol)
      prow == Arr([j \in 1..Len(matrix[pivotRow + 1]) |->
                 RDiv(matrix[pivotRow + 1][j], pivotElement)])
  IN Arr([i \in 1..Len(matrix) |->
        IF i = pivotRow + 1 THEN prow
        ELSE LET factor == At(matrix[i], pivotCol)
             IN Arr([j \in 1..Len(matrix[i]) |->
                   RSub(matrix[i][j], RMul(factor, At(prow, j - 1)))])])

\* ---------------------------------------------------- pivot candidate search
\* The canLeaveBasis option: every caller passes appendNextSnapshot's
\* value => !neg(value) && value !== 0.
canLeaveBasis(value) == ~neg(value) /\ NotZero(value)

\* A ratio test in which a later row with an equal ratio replaces the choice.
RECURSIVE ScanRowsLastMin(_, _, _, _, _, _)
ScanRowsLastMin(matrix, col, ratioEpsilon, row, leavingRow, minRatio) ==
  IF row >= Len(matrix) THEN leavingRow
  ELSE IF ~canLeaveBasis(Cell(matrix, row, col))
       THEN ScanRowsLastMin(matrix, col, ratioEpsilon, row + 1, leavingRow, minRatio)
  ELSE IF ~RLt(RSub(minRatio, ratioEpsilon),
               RDiv(Cell(matrix, row, Len(matrix[1]) - 1), Cell(matrix, row, col)))
       THEN ScanRowsLastMin(matrix, col, ratioEpsilon, row + 1, row,
                            RDiv(Cell(matrix, row, Len(matrix[1]) - 1),
                                 Cell(matrix, row, col)))
       ELSE ScanRowsLastMin(matrix, col, ratioEpsilon, row + 1, leavingRow, minRatio)

\* The ratio test of one column: rows are scanned in increasing order and a
\* row replaces the current choice only when its ratio is strictly smaller
\* than minRatio - ratioEpsilon.  leavingRow = -1 while no row was chosen.
RECURSIVE ScanRows(_, _, _, _, _, _)
ScanRows(matrix, col, ratioEpsilon, row, leavingRow, minRatio) ==
  IF row >= Len(matrix) THEN leavingRow
  ELSE IF ~canLeaveBasis(Cell(matrix, row, col))
       THEN ScanRows(matrix, col, ratioEpsilon, row + 1, leavingRow, minRatio)
  ELSE LET rhsIndex == Len(matrix[1]) - 1
           ratio == RDiv(Cell(matrix, row, rhsIndex), Cell(matrix, row, col))
       IN IF RLt(ratio, RSub(minRatio, ratioEpsilon))
          THEN ScanRows(matrix, col, ratioEpsilon, row + 1, row, ratio)
          ELSE ScanRows(matrix, col, ratioEpsilon, row + 1, leavingRow, minRatio)

RECURSIVE ScanCols(_, _, _, _)
ScanCols(matrix, z, ratioEpsilon, col) ==
  IF col >= Len(z) - 1 THEN <<>>
  ELSE LET rest == ScanCols(matrix, z, ratioEpsilon, col + 1)
           leavingRow == ScanRows(matrix, col, ratioEpsilon, 0, -1, Infinity)
       IN IF neg(At(z, col)) /\ leavingRow # -1
          THEN <<<<leavingRow, col>>>> \o rest
          ELSE rest

\* A search that keeps only the first candidate column.
findPotentialPivotsFirstOnly(matrix, z, ratioEpsilon) ==
  [potentialPivots |-> SubSeq(ScanCols(matrix, z, ratioEpsilon, 0), 1,
                              IF Len(ScanCols(matrix, z, ratioEpsilon, 0)) > 0
                              THEN 1 ELSE 0),
   hasNegative |-> \E col \in 0..(Len(z) - 2) : neg(At(z, col))]

\* options.ratioEpsilon ?? 0 is passed as ratioEpsilon.
findPotentialPivots(matrix, z, ratioEpsilon) ==
  [potentialPivots |-> ScanCols(matrix, z, ratioEpsilon, 0),
   hasNegative |-> \E col \in 0..(Len(z) - 2) : neg(At(z, col))]

\* A classification that never yields 'unbounded'.
resolveSolutionTypeWithoutUnbounded(hasNegative, potentialPivots) ==
  IF ~hasNegative THEN "optimal" ELSE "not-solved"

resolveSolutionType(hasNegative, potentialPivots) ==
  IF ~hasNegative THEN "optimal"
  ELSE IF Len(potentialPivots) = 0 THEN "unbounded"
  ELSE "not-solved"

\* ------------------------------------------------------------ z-row rebuild
\* Sum over the rows i (0-based, from i on) of coeff(row label) * matrix[i][j].
RECURSIVE BasisSum(_, _, _, _, _)
BasisSum(problem, matrix, rowVariables, j, i) ==
  IF i >= Len(rowVariables) THEN Zero
  ELSE LET coeff == ObjCoeff(problem, ParseIndex(rowVariables[i + 1]) - 1)
           rest == BasisSum(problem, matrix, rowVariables, j, i + 1)
       IN IF IsZero(coeff) THEN rest
          ELSE RAdd(RMul(coeff, Cell(matrix, i, j)), rest)

\* rebuildOriginalZ of solver.ts.
rebuildOriginalZ(problem, matrix, rowVariables, colsVariables) ==
  LET cols == Len(matrix[1])
      rhsIndex == cols - 1
      len == IF Len(colsVariables) > cols THEN Len(colsVariables) ELSE cols
      start == Arr([j1 \in 1..len |->
                  LET j == j1 - 1
                  IN IF j < Len(colsVariables)
                     THEN LET coeff == ObjCoeff(problem, ParseIndex(colsVariables[j1]) - 1)
                          IN IF j = rhsIndex THEN coeff ELSE RNeg(coeff)
                     ELSE Zero])
      subst == Arr([j1 \in 1..len |->
                  IF j1 <= cols
                  THEN RAdd(start[j1], BasisSum(problem, matrix, rowVariables, j1 - 1, 0))
                  ELSE start[j1]])
  IN IF problem.objectiveType = "min"
     THEN Arr([j1 \in 1..len |-> RMul(subst[j1], R(-1))])
     ELSE subst

isAllZero(z) == \A i \in 1..Len(z) : AbsLtEps(z[i])

isSameVector(a, b) ==
  /\ Len(a) = Len(b)
  /\ \A i \in 1..Len(a) : ~AbsGtEps(RSub(a[i], b[i]))

\* ------------------------------------------------------------- step engine
\* An absent optional field: selectedPivotIndex of a Step, solutionType of a
\* SolverState.
NoIndex == <<>>
NoSolutionType == "undefined"

cloneSteps(steps) ==
  Arr([i \in 1..Len(steps) |->
     [matrix |-> cloneM(steps[i].matrix),
      z |-> cloneA(steps[i].z),
      potentialPivots |-> cloneA(steps[i].potentialPivots),
      colsVariables |-> cloneA(steps[i].colsVariables),
      rowVariables |-> cloneA(steps[i].rowVariables),
      solutionType |-> steps[i].solutionType,
      selectedPivotIndex |-> steps[i].selectedPivotIndex]])

restoreState(problem, step) ==
  LET matrix == cloneM(step.matrix)
      z == cloneA(step.z)
      colsVariables == cloneA(step.colsVariables)
      rowVariables == cloneA(step.rowVariables)
      originalZ == rebuildOriginalZ(problem, matrix, rowVariables, colsVariables)
  IN [matrix |-> matrix,
      z |-> z,
      colsVariables |-> colsVariables,
      rowVariables |-> rowVariables,
      artificialPhase |-> ~isSameVector(z, originalZ),
      solutionType |-> NoSolutionType]

\* The step appendNextSnapshot pushes for a state, given what
\* findPotentialPivots found in it.
PushedStep(state, found) ==
  [matrix |-> cloneM(state.matrix),
   z |-> cloneA(state.z),
   potentialPivots |-> cloneA(found.potentialPivots),
   colsVariables |-> cloneA(state.colsVariables),
   rowVariables |-> cloneA(state.rowVariables),
   solutionType |-> resolveSolutionType(found.hasNegative, found.potentialPivots),
   selectedPivotIndex |-> NoIndex]

Snapshot(state) ==
  PushedStep(state, findPotentialPivots(state.matrix, state.z, Zero))

\* appendNextSnapshot: the steps it returns and the content it leaves in the
\* state object it was given.  Each round of its loop pushes a step; the loop
\* goes round again when that step is final, the state is in the artificial
\* phase and its z row is all zero.
RECURSIVE appendNextSnapshot(_, _, _)
AfterPush(problem, steps, state) ==
  IF /\ steps[Len(steps)].solutionType # "not-solved"
     /\ state.artificialPhase
     /\ isAllZero(state.z)
  THEN appendNextSnapshot(problem, steps,
         [state EXCEPT !.z = rebuildOriginalZ(problem, state.matrix,
                                              state.rowVariables, state.colsVariables),
                       !.artificialPhase = FALSE])
  ELSE [steps |-> steps, state |-> state]

appendNextSnapshot(problem, steps, state) ==
  AfterPush(problem, Append(steps, Snapshot(state)), state)

\* The state with the pivoted tableau (the rows of the matrix, then the z
\* row) written back to it.
WithTableau(state, tableau) ==
  [state EXCEPT !.matrix = SubSeq(tableau, 1, Len(tableau) - 1),
                !.z = tableau[Len(tableau)]]

Pivoted(state, pivotRow, pivotCol, method, afterPivot) ==
  IF method = "artificial"
  THEN WithTableau(
         [state EXCEPT !.rowVariables = SetAt(state.rowVariables, pivotRow,
                                              state.colsVariables[pivotCol + 1]),
                       !.colsVariables = RemoveAt(state.colsVariables, pivotCol)],
         Arr([i \in 1..Len(afterPivot) |-> RemoveAt(afterPivot[i], pivotCol)]))
  ELSE WithTableau(
         [state EXCEPT !.rowVariables = SetAt(state.rowVariables, pivotRow,
                                              state.colsVariables[pivotCol + 1])],
         afterPivot)

applyPivotToState(state, pivotPoint, method) ==
  Pivoted(state, pivotPoint[1], pivotPoint[2], method,
          performPivot(cloneM(Append(state.matrix, state.z)),
                       pivotPoint[1], pivotPoint[2]))

\* A variant of the default below that also clamps a negative index to 0.
ChosenPivotIndexClamped(selectedPivotIndex) ==
  IF selectedPivotIndex = NoIndex THEN Zero
  ELSE IF IsFinite(selectedPivotIndex[1]) /\ selectedPivotIndex[1][1] < 0 THEN Zero
  ELSE selectedPivotIndex[1]

\* selectedPivotIndex ?? 0: the argument is <<>> (undefined) or <<number>>.
ChosenPivotIndex(selectedPivotIndex) ==
  IF selectedPivotIndex = NoIndex THEN Zero ELSE selectedPivotIndex[1]

\* potentialPivots[index] is defined only for an integer index inside the array.
Addresses(index, potentialPivots) ==
  /\ IsFinite(index)
  /\ index[2] = 1
  /\ index[1] >= 0
  /\ index[1] < Len(potentialPivots)

\* A variant of the advance below in which the restored state shares the
\* rowVariables array of the last step, so that the pivot's label update
\* shows in that step.
AdvanceLastStepAliased(problem, cloned, method, chosenPivotIndex) ==
  appendNextSnapshot(
    problem,
    Put(cloned, Len(cloned) - 1,
        [cloned[Len(cloned)] EXCEPT
           !.selectedPivotIndex = <<chosenPivotIndex>>,
           !.rowVariables =
              SetAt(cloned[Len(cloned)].rowVariables,
                    cloned[Len(cloned)].potentialPivots[chosenPivotIndex[1] + 1][1],
                    cloned[Len(cloned)].colsVariables[
                      cloned[Len(cloned)].potentialPivots[chosenPivotIndex[1] + 1][2] + 1])]),
    applyPivotToState(restoreState(problem, cloned[Len(cloned)]),
                      cloned[Len(cloned)].potentialPivots[chosenPivotIndex[1] + 1],
                      method)).steps

\* The steps after the pivot at chosenPivotIndex of the last step: the index
\* is recorded in that step, the state restored from it is pivoted and
\* snapshotted.
AdvanceLastStep(problem, cloned, method, chosenPivotIndex) ==
  appendNextSnapshot(
    problem,
    Put(cloned, Len(cloned) - 1,
        [cloned[Len(cloned)] EXCEPT !.selectedPivotIndex = <<chosenPivotIndex>>]),
    applyPivotToState(restoreState(problem, cloned[Len(cloned)]),
                      cloned[Len(cloned)].potentialPivots[chosenPivotIndex[1] + 1],
                      method)).steps

\* A variant of solveStepMode that snapshots the restored last step once more
\* when the history is finished, instead of returning the history as it is.
solveStepModeResnapshot(problem, previousSteps, initialState, method, selectedPivotIndex) ==
  IF Len(previousSteps) = 0
  THEN appendNextSnapshot(problem, cloneSteps(previousSteps), initialState)
  ELSE IF \/ Len(previousSteps[Len(previousSteps)].potentialPivots) = 0
          \/ previousSteps[Len(previousSteps)].solutionType # "not-solved"
  THEN [steps |-> appendNextSnapshot(
                    problem, cloneSteps(previousSteps),
                    restoreState(problem, previousSteps[Len(previousSteps)])).steps,
        state |-> initialState]
  ELSE IF ~Addresses(ChosenPivotIndex(selectedPivotIndex),
                     previousSteps[Len(previousSteps)].potentialPivots)
  THEN [steps |-> cloneSteps(previousSteps), state |-> initialState]
  ELSE [steps |-> AdvanceLastStep(problem, cloneSteps(previousSteps), method,
                                  ChosenPivotIndex(selectedPivotIndex)),
        state |-> initialState]

\* One call of solveStepMode: the steps it returns (steps) and the content of
\* the initialState object after the call (state).
solveStepModeCall(problem, previousSteps, initialState, method, selectedPivotIndex) ==
  IF Len(previousSteps) = 0
  THEN appendNextSnapshot(problem, cloneSteps(previousSteps), initialState)
  ELSE IF \/ Len(previousSteps[Len(previousSteps)].potentialPivots) = 0
          \/ previousSteps[Len(previousSteps)].solutionType # "not-solved"
  THEN [steps |-> cloneSteps(previousSteps), state |-> initialState]
  ELSE IF ~Addresses(ChosenPivotIndex(selectedPivotIndex),
                     previousSteps[Len(previousSteps)].potentialPivots)
  THEN [steps |-> cloneSteps(previousSteps), state |-> initialState]
  ELSE [steps |-> AdvanceLastStep(problem, cloneSteps(previousSteps), method,
                                  ChosenPivotIndex(selectedPivotIndex)),
        state |-> initialState]

solveStepMode(problem, previousSteps, initialState, method, selectedPivotIndex) ==
  solveStepModeCall(problem, previousSteps, initialState, method, selectedPivotIndex).steps

\* ------------------------------------------------------------ initial states
\* createInitialArtificialState of artificial.ts: every artificial variable
\* x(n+1)..x(n+m) starts in the basis.
createInitialArtificialState(problem) ==
  LET matrix == normalizeRhs(buildMatrix(problem))
  IN [matrix |-> matrix,
      z |-> buildTargetFunction(matrix),
      colsVariables |-> Arr([i \in 1..problem.numVariables |-> Label(i)]),
      rowVariables |-> Arr([i \in 1..problem.numConstraints |->
                          Label(i + problem.numVariables)]),
      artificialPhase |-> TRUE,
      solutionType |-> NoSolutionType]

\* buildMatrix(problem, true): the coefficient rows without the right-hand
\* side, which applyBasisGauss carries separately and appends at the end.
buildMatrixWithoutRhs(problem) ==
  Arr([i \in 1..problem.numConstraints |->
     Arr([j \in 1..problem.numVariables |-> R(problem.constraintMatrix[i][j])])])

\* Row r of the matrix minus factor times row i (0-based rows).
RowMinus(matrix, r, factor, i) ==
  Arr([j \in 1..Len(matrix[r + 1]) |->
     RSub(matrix[r + 1][j], RMul(factor, matrix[i + 1][j]))])

\* Rows r = from..m-1 (0-based) reduced by row i, in increasing order.
RECURSIVE EliminateBelow(_, _, _, _)
EliminateBelow(g, pivotCol, i, r) ==
  IF r >= Len(g.matrix) THEN g
  ELSE LET factor == Cell(g.matrix, r, pivotCol)
       IN EliminateBelow(
            [g EXCEPT !.matrix = Put(g.matrix, r, RowMinus(g.matrix, r, factor, i)),
                      !.rhs = Put(g.rhs, r, RSub(g.rhs[r + 1],
                                                 RMul(factor, g.rhs[i + 1])))],
            pivotCol, i, r + 1)

\* Rows r = from, from-1, .., 0 reduced by row i.
RECURSIVE EliminateAbove(_, _, _, _)
EliminateAbove(g, pivotCol, i, r) ==
  IF r < 0 THEN g
  ELSE LET factor == Cell(g.matrix, r, pivotCol)
       IN EliminateAbove(
            [g EXCEPT !.matrix = Put(g.matrix, r, RowMinus(g.matrix, r, factor, i)),
                      !.rhs = Put(g.rhs, r, RSub(g.rhs[r + 1],
                                                 RMul(factor, g.rhs[i + 1])))],
            pivotCol, i, r - 1)

\* The first row below i with a nonzero entry in pivotCol, or -1.
SwapRow(matrix, i, pivotCol) ==
  LET rows == {r \in (i + 1)..(Len(matrix) - 1) : NotZero(Cell(matrix, r, pivotCol))}
  IN IF rows = {} THEN -1 ELSE CHOOSE r \in rows : \A q \in rows : r <= q

\* Forward elimination from basis position i on.  ok = FALSE stands for the
\* exception the code throws: "Degenerate system", or the TypeError of reading
\* a row the matrix does not have.
RECURSIVE GaussForward(_, _, _)
GaussForward(g, basis, i) ==
  IF ~g.ok \/ i >= Len(basis) THEN g
  ELSE IF i >= Len(g.matrix) THEN [g EXCEPT !.ok = FALSE]
  ELSE
    LET pivotCol == basis[i + 1] - 1
        swapRow == SwapRow(g.matrix, i, pivotCol)
        needSwap == IsZero(Cell(g.matrix, i, pivotCol))
    IN IF needSwap /\ swapRow = -1 THEN [g EXCEPT !.ok = FALSE]
       ELSE
         LET swapped == IF needSwap
                        THEN Put(Put(g.matrix, i, g.matrix[swapRow + 1]),
                                 swapRow, g.matrix[i + 1])
                        ELSE g.matrix
             pivot == Cell(swapped, i, pivotCol)
             scaled == [g EXCEPT
                          !.matrix = Put(swapped, i,
                                         Arr([j \in 1..Len(swapped[i + 1]) |->
                                            RDiv(swapped[i + 1][j], pivot)])),
                          !.rhs = Put(g.rhs, i, RDiv(g.rhs[i + 1], pivot))]
         IN GaussForward(EliminateBelow(scaled, pivotCol, i, i + 1), basis, i + 1)

\* Backward elimination; it is not reached once the forward pass has thrown.
RECURSIVE GaussBackward(_, _, _)
GaussBackward(g, basis, i) ==
  IF ~g.ok \/ i < 0 THEN g
  ELSE GaussBackward(EliminateAbove(g, basis[i + 1] - 1, i, i - 1), basis, i - 1)

\* The columns (0-based) that are not in the basis, in increasing order.
NonBasisColumns(cols, basis) ==
  SelectSeq(Arr([c \in 1..cols |-> c - 1]),
            LAMBDA c : c \notin {basis[k] - 1 : k \in 1..Len(basis)})

\* The matrix applyBasisGauss returns: the non-basis columns of every
\* eliminated row, then its right-hand side.
GaussResult(g, kept) ==
  IF ~g.ok THEN [ok |-> FALSE, matrix |-> <<>>]
  ELSE [ok |-> TRUE,
        matrix |-> Arr([i \in 1..Len(g.matrix) |->
                      Arr([j \in 1..(Len(kept) + 1) |->
                         IF j <= Len(kept) THEN g.matrix[i][kept[j] + 1]
                         ELSE g.rhs[i]])])]

\* applyBasisGauss: [ok |-> TRUE, matrix |-> the final matrix] or, when the
\* code throws, [ok |-> FALSE].
applyBasisGauss(matrix, rhs, basis) ==
  GaussResult(
    GaussBackward(
      GaussForward([ok |-> TRUE, matrix |-> matrix, rhs |-> rhs], basis, 0),
      basis, Len(basis) - 1),
    NonBasisColumns(Len(matrix[1]), basis))

\* rebuildOriginalZ of simplexMethod.ts (no sign flip for min or max).
rebuildOriginalZSimplexMethod(problem, matrix, rowVariables, colsVariables) ==
  LET cols == Len(matrix[1])
      rhsIndex == cols - 1
      len == IF Len(colsVariables) > cols THEN Len(colsVariables) ELSE cols
      start == Arr([j1 \in 1..len |->
                  LET j == j1 - 1
                  IN IF j < Len(colsVariables) /\ j # rhsIndex
                     THEN ObjCoeff(problem, ParseIndex(colsVariables[j1]) - 1)
                     ELSE Zero])
  IN Arr([j1 \in 1..len |->
        IF j1 <= cols
        THEN RSub(start[j1], BasisSum(problem, matrix, rowVariables, j1 - 1, 0))
        ELSE start[j1]])

\* The state createInitialSimplexState returns for the labels it computed and
\* the outcome of applyBasisGauss; the catch block answers a thrown exception.
InitialSimplexState(problem, rowVariables, colsVariables, gauss) ==
  IF gauss.ok
  THEN [matrix |-> gauss.matrix,
        z |-> rebuildOriginalZSimplexMethod(problem, gauss.matrix,
                                            rowVariables, colsVariables),
        colsVariables |-> colsVariables,
        rowVariables |-> rowVariables,
        artificialPhase |-> TRUE,
        solutionType |-> NoSolutionType]
  ELSE [matrix |-> <<<<>>>>,
        z |-> <<>>,
        colsVariables |-> colsVariables,
        rowVariables |-> rowVariables,
        artificialPhase |-> TRUE,
        solutionType |-> "infeasible"]

createInitialSimplexState(problem, basis) ==
  InitialSimplexState(
    problem,
    Arr([i \in 1..Len(basis) |-> Label(basis[i])]),
    SelectSeq(Arr([i \in 1..problem.numVariables |-> Label(i)]),
              LAMBDA l : l \notin {Label(basis[i]) : i \in 1..Len(basis)}),
    applyBasisGauss(normalizeRhs(buildMatrixWithoutRhs(problem)),
                    Arr([i \in 1..Len(problem.rightHandSide) |->
                       R(problem.rightHandSide[i])]),
                    basis))

isBasisLengthValid(problem, basis) == Len(basis) = problem.numConstraints

isBasisIndicesValid(problem, basis) ==
  /\ Cardinality({basis[i] : i \in 1..Len(basis)}) = Len(basis)
  /\ \A i \in 1..Len(basis) : basis[i] > 0 /\ basis[i] <= problem.numVariables

\* -------------------------------------------------------- solution extraction
createZeroSolution(totalVars) == [l \in {Label(i) : i \in 1..totalVars} |-> Zero]

\* extractSolution: the rows are read in order, so the last row carrying a
\* label decides its value.
\* An extraction that also reads the rows labelled by artificial variables,
\* clamping their index to the last real variable.
extractSolutionClamped(matrix, rowVariables, totalVars) ==
  LET rhs == Len(matrix[1]) - 1
      Clamp(idx) == IF idx > totalVars THEN totalVars ELSE idx
      Rows(idx) == {i \in 0..(Len(rowVariables) - 1) :
                      /\ Clamp(ParseIndex(rowVariables[i + 1])) = idx
                      /\ i < Len(matrix)
                      /\ rhs >= 0
                      /\ rhs < Len(matrix[i + 1])}
  IN [l \in {Label(i) : i \in 1..totalVars} |->
        LET rows == Rows(ParseIndex(l))
        IN IF rows = {} THEN Zero
           ELSE Cell(matrix, CHOOSE i \in rows : \A q \in rows : q <= i, rhs)]

extractSolution(matrix, rowVariables, totalVars) ==
  LET rhs == Len(matrix[1]) - 1
      Rows(idx) == {i \in 0..(Len(rowVariables) - 1) :
                      /\ ParseIndex(rowVariables[i + 1]) = idx
                      /\ i < Len(matrix)
                      /\ rhs >= 0
                      /\ rhs < Len(matrix[i + 1])}
  IN [l \in {Label(i) : i \in 1..totalVars} |->
        LET rows == Rows(ParseIndex(l))
        IN IF rows = {} THEN Zero
           ELSE Cell(matrix, CHOOSE i \in rows : \A q \in rows : q <= i, rhs)]

extractSolutionFromSteps(problem, steps) ==
  IF Len(steps) = 0 THEN createZeroSolution(problem.numVariables)
  ELSE extractSolution(steps[Len(steps)].matrix, steps[Len(steps)].rowVariables,
                       problem.numVariables)

\* Sum of objectiveCoefficients[i] * (x[`x${i+1}`] ?? 0), from position i on.
RECURSIVE ObjectiveSum(_, _, _)
ObjectiveSum(x, objectiveCoefficients, i) ==
  IF i > Len(objectiveCoefficients) THEN Zero
  ELSE RAdd(RMul(R(objectiveCoefficients[i]),
                 IF Label(i) \in DOMAIN x THEN x[Label(i)] ELSE Zero),
            ObjectiveSum(x, objectiveCoefficients, i + 1))

computeObjectiveFromX(x, objectiveCoefficients) ==
  ObjectiveSum(x, objectiveCoefficients, 1)

\* ------------------------------------------------------------------ auto-solve
\* The loop of doSimplex runs until solveStepMode stops growing the history or
\* the last step is classified.  The code has no iteration cap; the model
\* follows the loop for at most MaxPivots further rounds and reports in `returned`
\* whether the loop had ended by then.
MaxPivots == 6

\* The while loop of doSimplex from its next call of solveStepMode on, cut
\* after MaxPivots further rounds (returned = FALSE: the loop is still running).
RECURSIVE DoSimplexLoop(_, _, _, _, _)
AfterStep(problem, steps, next, method, fuel) ==
  IF Len(next.steps) = Len(steps)
  THEN [steps |-> next.steps, state |-> next.state, returned |-> TRUE]
  ELSE IF next.steps[Len(next.steps)].solutionType # "not-solved"
  THEN [steps |-> next.steps, state |-> next.state, returned |-> TRUE]
  ELSE IF fuel = 0
  THEN [steps |-> next.steps, state |-> next.state, returned |-> FALSE]
  ELSE DoSimplexLoop(problem, next.steps, next.state, method, fuel - 1)

DoSimplexLoop(problem, steps, state, method, fuel) ==
  AfterStep(problem, steps, solveStepModeCall(problem, steps, state, method, <<Zero>>),
            method, fuel)

\* The Solution doSimplex builds from the final steps and the x read off them.
SolutionOf(steps, x, method, returned) ==
  [steps |-> IF steps[Len(steps)].solutionType = "optimal" /\ DOMAIN x = {}
             THEN Put(steps, Len(steps) - 1,
                      [steps[Len(steps)] EXCEPT !.solutionType = "unbounded"])
             ELSE steps,
   objective |-> RMul(At(steps[Len(steps)].z, Len(steps[Len(steps)].z) - 1), R(-1)),
   x |-> x,
   method |-> method,
   returned |-> returned]

AfterLoop(problem, run, method) ==
  SolutionOf(run.steps, extractSolutionFromSteps(problem, run.steps), method,
             run.returned)

doSimplex(problem, initialState, method) ==
  AfterLoop(problem, DoSimplexLoop(problem, <<>>, initialState, method, MaxPivots),
            method)

solveArtificial(problem) ==
  doSimplex(problem, createInitialArtificialState(problem), "artificial")

\* The answer of solveSimplex to a basis of the wrong length or with wrong
\* indices: the initial state as its only step.
InvalidBasisSolution(state) ==
  [steps |-> <<[matrix |-> state.matrix,
                z |-> state.z,
                potentialPivots |-> <<>>,
                colsVariables |-> state.colsVariables,
                rowVariables |-> state.rowVariables,
                solutionType |-> "infeasible",
                selectedPivotIndex |-> NoIndex]>>,
   objective |-> Zero,
   x |-> <<>>,
   method |-> "simplex",
   returned |-> TRUE]

SolveSimplexFrom(problem, basis, state) ==
  IF ~isBasisLengthValid(problem, basis) \/ ~isBasisIndicesValid(problem, basis)
  THEN InvalidBasisSolution(state)
  ELSE doSimplex(problem, state, "simplex")

\* solveSimplex of simplexMethod.ts.
solveSimplex(problem, basis) ==
  SolveSimplexFrom(problem, basis, createInitialSimplexState(problem, basis))

\* ------------------------------------------------------------------- inputs
Coefs == {-1, 0, 1}
Rhs == -MaxRhs..MaxRhs
ObjPairs == {<<1, -1>>, <<-1, 0>>, <<0, 1>>, <<0, 0>>}

Problem(n, m, c, A, b, t) ==
  [numVariables |-> n, numConstraints |-> m, objectiveCoefficients |-> c,
   constraintMatrix |-> A, rightHandSide |-> b, objectiveType |-> t]

\* Every problem with two variables and one constraint over these ranges.
SmallProblems ==
  {Problem(2, 1, c, <<<<a1, a2>>>>, <<b1>>, t) :
     c \in ObjPairs, a1 \in Coefs, a2 \in Coefs, b1 \in Rhs, t \in {"min", "max"}}

\* getExampleProblem3 of utils.ts and further problems with three variables
\* and two constraints.
getExampleProblem3 ==
  Problem(3, 2, <<-1, 2, -1>>, <<<<1, 4, 1>>, <<1, -2, -1>>>>, <<5, -1>>, "min")

FixtureProblems ==
  {getExampleProblem3,
   Problem(3, 2, <<1, -1, 0>>, <<<<1, 1, 1>>, <<1, 1, 0>>>>, <<2, 1>>, "min"),
   Problem(3, 2, <<1, 1, -1>>, <<<<1, 1, 1>>, <<1, -1, 0>>>>, <<2, 0>>, "max"),
   Problem(3, 2, <<0, 1, 1>>, <<<<1, 0, -1>>, <<-1, 0, 1>>>>, <<0, 0>>, "max"),
   Problem(3, 2, <<-1, -1, 0>>, <<<<1, 2, 1>>, <<2, 1, -1>>>>, <<4, 4>>, "min")}

Problems == SmallProblems \cup FixtureProblems

\* The starting bases offered for a problem: none (two-phase), every sequence
\* of numConstraints indices from 0 to numVariables + 1 (valid, duplicate and
\* out-of-range ones), one basis too short and one too long.
Bases(problem) ==
  LET n == problem.numVariables
      m == problem.numConstraints
  IN {<<>>}
     \cup [1..m -> 0..(n + 1)]
     \cup (IF m > 1 THEN {<<1>>} ELSE {})
     \cup {[i \in 1..(m + 1) |-> i], [i \in 1..(m + 1) |-> 1]}

\* The pivot index arguments: undefined, the integers -1..MaxPivotIndex and
\* the non-integer 1/2.
PivotArgs == {NoIndex, <<Rat(1, 2)>>} \cup {<<R(k)>> : k \in -1..MaxPivotIndex}

\* ------------------------------------------------------------------- state
VARIABLES
  problem,    \* solution.problem of the hook
  basis,      \* the starting basis the user interface passes to the hook
  solution,   \* steps, x, objective and method of the hook's Solution
  call        \* the last call of solveStepMode made by the hook

vars == <<problem, basis, solution, call>>

NoCall(op) ==
  [op |-> op, called |-> FALSE, previousSteps |-> <<>>, selectedPivotIndex |-> NoIndex,
   method |-> "artificial", stateBefore |-> <<>>, stateAfter |-> <<>>, result |-> <<>>,
   stepIndex |-> -1]

Init ==
  /\ problem \in Problems
  /\ basis \in Bases(problem)
  /\ solution = [steps |-> <<>>, x |-> <<>>, method |-> "artificial", objective |-> Zero]
  /\ call = NoCall("init")

MethodOf(b) == IF Len(b) = 0 THEN "artificial" ELSE "simplex"

InitialStateOf(p, b) ==
  IF Len(b) = 0 THEN createInitialArtificialState(p) ELSE createInitialSimplexState(p, b)

\* The record of a call of solveStepMode.
Called(op, previousSteps, selectedPivotIndex, method, initialState, out) ==
  [op |-> op, called |-> TRUE, previousSteps |-> previousSteps,
   selectedPivotIndex |-> selectedPivotIndex, method |-> method,
   stateBefore |-> initialState, stateAfter |-> out.state, result |-> out.steps,
   stepIndex |-> -1]

\* A truncation that keeps the whole history.
TruncatedStepsKeepAll(steps, stepIndex) == cloneSteps(steps)

\* prev.steps.slice(0, stepIndex + 1) with every step copied.
TruncatedSteps(steps, stepIndex) == cloneSteps(SubSeq(steps, 1, stepIndex + 1))

\* startStepByStep(basis)
StartStepByStep ==
  /\ IF Len(solution.steps) > 0
     THEN /\ solution' = solution
          /\ call' = NoCall("startStepByStep")
     ELSE \E initialState \in {InitialStateOf(problem, basis)} :
          \E out \in {solveStepModeCall(problem, <<>>, initialState, "artificial",
                                        NoIndex)} :
            /\ solution' = [solution EXCEPT !.steps = out.steps,
                                            !.method = MethodOf(basis)]
            /\ call' = Called("startStepByStep", <<>>, NoIndex, "artificial",
                              initialState, out)
  /\ UNCHANGED <<problem, basis>>

\* solveStepByStep(stepIndex, pivotIndex, basis)
SolveStepByStep(stepIndex, pivotIndex) ==
  /\ stepIndex + 1 < MaxSteps
  /\ IF stepIndex < 0 \/ stepIndex >= Len(solution.steps)
     THEN /\ solution' = solution
          /\ call' = NoCall("solveStepByStep")
     ELSE \E truncatedSteps \in {TruncatedSteps(solution.steps, stepIndex)} :
          \E initialState \in {InitialStateOf(problem, basis)} :
          \E out \in {solveStepModeCall(problem, truncatedSteps, initialState,
                                        MethodOf(basis), pivotIndex)} :
          \E x \in {extractSolutionFromSteps(problem, out.steps)} :
            /\ solution' = [steps |-> out.steps,
                            x |-> x,
                            objective |-> computeObjectiveFromX(
                                            x, problem.objectiveCoefficients),
                            method |-> MethodOf(basis)]
            /\ call' = [Called("solveStepByStep", truncatedSteps, pivotIndex,
                               MethodOf(basis), initialState, out)
                          EXCEPT !.stepIndex = stepIndex]
  /\ UNCHANGED <<problem, basis>>

\* solveAll(basis)
SolveAll ==
  \E result \in {IF Len(basis) = 0 THEN solveArtificial(problem)
                  ELSE solveSimplex(problem, basis)} :
    /\ result.returned
    /\ solution' = [steps |-> result.steps, x |-> result.x,
                    objective |-> result.objective, method |-> result.method]
    /\ call' = NoCall("solveAll")
    /\ UNCHANGED <<problem, basis>>

\* reset()
Reset ==
  /\ solution' = [solution EXCEPT !.steps = <<>>, !.x = <<>>, !.objective = Zero]
  /\ call' = NoCall("reset")
  /\ UNCHANGED <<problem, basis>>

Next ==
  \/ StartStepByStep
  \/ \E stepIndex \in -1..Len(solution.steps), pivotIndex \in PivotArgs :
       SolveStepByStep(stepIndex, pivotIndex)
  \/ SolveAll
  \/ Reset

Spec == Init /\ [][Next]_vars

\* --------------------------------------------------------------- properties
Last(steps) == steps[Len(steps)]

\* A step that ends a history: it is optimal, unbounded or infeasible, or it
\* offers no pivot.
Finished(step) ==
  step.solutionType # "not-solved" \/ Len(step.potentialPivots) = 0

\* The pivot index argument picks an entry of potentialPivots: it is absent
\* (entry 0) or an integer from 0 to the length of the list minus one.
PicksEntry(selectedPivotIndex, potentialPivots) ==
  IF selectedPivotIndex = NoIndex THEN Len(potentialPivots) > 0
  ELSE /\ selectedPivotIndex[1][2] = 1
       /\ selectedPivotIndex[1][1] \in 0..(Len(potentialPivots) - 1)

\* C1: solveStepMode called on a history whose last step is optimal, unbounded
\* or infeasible, or has no potential pivots, returns with any pivot index a
\* history equal step for step to the one it was given.
AdvanceOnFinishedHistoryReturnsIt ==
  (call.called /\ Len(call.previousSteps) > 0 /\ Finished(Last(call.previousSteps)))
    => call.result = call.previousSteps

\* A finished history of two or more steps was advanced with pivot index 1.
FinishedHistoryAdvanced ==
  /\ call.called
  /\ Len(call.previousSteps) > 1
  /\ Finished(Last(call.previousSteps))
  /\ call.selectedPivotIndex = <<One>>
  /\ call.result = call.previousSteps

\* solveStepMode repeated from the steps current, a prefix of history, each
\* time with the pivot index history records for the current last step,
\* until history's length is reached or a call appends nothing.
RECURSIVE Replay(_, _)
ReplayFrom(history, current, next) ==
  IF Len(next) = Len(current) THEN current ELSE Replay(history, next)

Replay(history, current) ==
  IF Len(current) >= Len(history) THEN current
  ELSE ReplayFrom(history, current,
                  solveStepMode(problem, current, InitialStateOf(problem, basis),
                                MethodOf(basis),
                                history[Len(current)].selectedPivotIndex))

\* C2: for every history solveStepMode has produced and every prefix length k
\* from 1 to its length, advancing again from the first k steps with the
\* recorded pivot indices reproduces the whole history.
ReplayReproducesHistory ==
  call.called =>
    \A k \in 1..Len(call.result) :
      Replay(call.result, SubSeq(call.result, 1, k)) = call.result

\* C3: a call of solveStepMode leaves the initial state object it was given
\* as it was.
AdvanceLeavesInitialStateAlone ==
  call.called => call.stateAfter = call.stateBefore

\* C4: solveStepMode called on a history whose last step is 'not-solved',
\* with a pivot index that picks one of its potential pivots, returns a
\* history exactly one step longer.
PivotAppendsOneStep ==
  (/\ call.called
   /\ Len(call.previousSteps) > 0
   /\ Last(call.previousSteps).solutionType = "not-solved"
   /\ PicksEntry(call.selectedPivotIndex, Last(call.previousSteps).potentialPivots))
    => Len(call.result) = Len(call.previousSteps) + 1

\* C5: solveStepMode called with an empty history returns exactly one step,
\* the snapshot of the initial state.
EmptyHistoryGivesOneStep ==
  (call.called /\ Len(call.previousSteps) = 0)
    => call.result = <<Snapshot(call.stateBefore)>>

\* C6: solveStepMode called on an unfinished history with a pivot index that
\* picks no entry of the last step's potential pivots (negative, too large or
\* not an integer) returns the history it was given, nothing appended and
\* nothing recorded.
BadPivotIndexReturnsHistory ==
  (/\ call.called
   /\ Len(call.previousSteps) > 0
   /\ ~Finished(Last(call.previousSteps))
   /\ ~PicksEntry(call.selectedPivotIndex, Last(call.previousSteps).potentialPivots))
    => call.result = call.previousSteps

\* An unfinished history was advanced with an integer index past the end of
\* its potential pivots, and came back unchanged.
TooLargePivotIndexUsed ==
  /\ call.called
  /\ Len(call.previousSteps) > 0
  /\ ~Finished(Last(call.previousSteps))
  /\ call.selectedPivotIndex # NoIndex
  /\ call.selectedPivotIndex[1][2] = 1
  /\ call.selectedPivotIndex[1][1] >= Len(Last(call.previousSteps).potentialPivots)
  /\ call.result = call.previousSteps

\* The sum of column j (0-based) over the rows, from row i on, whose basic
\* variable is artificial: its label lies beyond the problem's variables.
RECURSIVE ArtificialRowsSum(_, _, _)
ArtificialRowsSum(step, j, i) ==
  IF i > Len(step.matrix) \/ i > Len(step.rowVariables) THEN Zero
  ELSE RAdd(IF ParseIndex(step.rowVariables[i]) > problem.numVariables
            THEN Cell(step.matrix, i - 1, j) ELSE Zero,
            ArtificialRowsSum(step, j, i + 1))

\* The step is optimal for Phase I with a positive artificial objective: its
\* z row is the artificial one (minus the sums of the artificial rows), no
\* reduced cost in it is negative and the objective it carries is positive.
PhaseOneOptimalPositive(step) ==
  /\ Len(step.z) > 0
  /\ \A j \in 0..(Len(step.z) - 1) :
       At(step.z, j) = RNeg(ArtificialRowsSum(step, j, 1))
  /\ \A j \in 0..(Len(step.z) - 2) : ~neg(At(step.z, j))
  /\ pos(RNeg(At(step.z, Len(step.z) - 1)))

\* C7: a two-phase solve that ends Phase I optimal with a positive artificial
\* objective returns a last step 'infeasible', an empty x and the objective
\* NaN.
PhaseOnePositiveIsInfeasible ==
  (/\ call.op = "solveAll"
   /\ basis = <<>>
   /\ PhaseOneOptimalPositive(Last(solution.steps)))
    => /\ Last(solution.steps).solutionType = "infeasible"
       /\ DOMAIN solution.x = {}
       /\ IsNaN(solution.objective)

\* The starting basis is none of: wrong length, duplicate index, index out
\* of range.
WellFormedBasis ==
  isBasisLengthValid(problem, basis) /\ isBasisIndicesValid(problem, basis)

\* The only step is 'infeasible' and carries no tableau and no labels.
EmptyInfeasibleHistory(steps) ==
  /\ Len(steps) = 1
  /\ steps[1].solutionType = "infeasible"
  /\ steps[1].matrix = <<>>
  /\ steps[1].z = <<>>
  /\ steps[1].colsVariables = <<>>
  /\ steps[1].rowVariables = <<>>

\* C8: solveSimplex given a starting basis of wrong length, with a duplicate
\* or with an out-of-range index returns a single 'infeasible' step with
\* empty matrix, z row and labels.
InvalidBasisGivesEmptyInfeasibleStep ==
  (call.op = "solveAll" /\ Len(basis) > 0 /\ ~WellFormedBasis)
    => EmptyInfeasibleHistory(solution.steps)

\* Gauss elimination of the problem's constraints on the starting basis.
CanonicalTableau ==
  applyBasisGauss(buildMatrixWithoutRhs(problem),
                  Arr([i \in 1..Len(problem.rightHandSide) |->
                     R(problem.rightHandSide[i])]),
                  basis)

\* Gauss elimination on the starting basis finds a zero pivot and no row
\* below to swap in.
SingularBasis ==
  WellFormedBasis /\ ~CanonicalTableau.ok

\* C9: a well-formed starting basis with linearly dependent columns yields
\* 'infeasible' with an empty x, and no 'optimal', 'unbounded' or
\* 'not-solved' step.
SingularBasisIsInfeasible ==
  (call.op = "solveAll" /\ SingularBasis)
    => /\ \A i \in 1..Len(solution.steps) :
            solution.steps[i].solutionType = "infeasible"
       /\ Len(solution.steps) > 0
       /\ DOMAIN solution.x = {}

\* The canonical tableau of the starting basis has a negative right-hand
\* side in some row.
NegativeCanonicalRhs ==
  /\ WellFormedBasis
  /\ CanonicalTableau.ok
  /\ \E i \in 1..problem.numConstraints :
       neg(Cell(CanonicalTableau.matrix, i - 1,
                problem.numVariables - problem.numConstraints))

\* C10: a well-formed, non-singular starting basis whose canonical tableau
\* has a negative right-hand side is reported 'infeasible' at once with an
\* empty tableau, in a solve and in a stepwise run, and nothing is pivoted.
NegativeRhsBasisIsInfeasible ==
  (NegativeCanonicalRhs /\ Len(solution.steps) > 0)
    => /\ Len(solution.steps) = 1
       /\ solution.steps[1].solutionType = "infeasible"
       /\ solution.steps[1].matrix = <<>>
       /\ solution.steps[1].selectedPivotIndex = NoIndex

\* ------------------------------------------------- the linear programme itself
\* The value x gives variable j (1-based): x[`x${j}`] ?? 0.
ValueOf(x, j) == IF Label(j) \in DOMAIN x THEN x[Label(j)] ELSE Zero

\* The left-hand side of constraint i at x, from variable j on.
RECURSIVE RowDot(_, _, _)
RowDot(x, i, j) ==
  IF j > problem.numVariables THEN Zero
  ELSE RAdd(RMul(R(problem.constraintMatrix[i][j]), ValueOf(x, j)),
            RowDot(x, i, j + 1))

\* x satisfies every equality constraint of the problem.
SatisfiesConstraints(x) ==
  \A i \in 1..problem.numConstraints : RowDot(x, i, 1) = R(problem.rightHandSide[i])

\* Every variable of the problem has a finite value >= 0 in x.
NonNegative(x) ==
  \A j \in 1..problem.numVariables :
    IsFinite(ValueOf(x, j)) /\ RGe(ValueOf(x, j), Zero)

FeasiblePoint(x) == NonNegative(x) /\ SatisfiesConstraints(x)

\* The point with the values of f on the variables in its domain and zero
\* elsewhere.
PointOf(f) ==
  [l \in {Label(j) : j \in 1..problem.numVariables} |->
     IF ParseIndex(l) \in DOMAIN f THEN f[ParseIndex(l)] ELSE Zero]

\* The points whose support is one variable j, read off any row with a
\* non-zero coefficient of j.
OneVariablePoints ==
  {PointOf(j :> RDiv(R(problem.rightHandSide[i]), R(problem.constraintMatrix[i][j]))) :
     <<i, j>> \in {q \in (1..problem.numConstraints) \X (1..problem.numVariables) :
                     problem.constraintMatrix[q[1]][q[2]] # 0}}

\* The points whose support is two variables j < k with independent columns
\* in rows r < s, by Cramer's rule.
Det(r, s, j, k) ==
  problem.constraintMatrix[r][j] * problem.constraintMatrix[s][k]
    - problem.constraintMatrix[r][k] * problem.constraintMatrix[s][j]

TwoVariablePoints ==
  {PointOf(q[3] :> Rat(problem.rightHandSide[q[1]] * problem.constraintMatrix[q[2]][q[4]]
                         - problem.constraintMatrix[q[1]][q[4]] * problem.rightHandSide[q[2]],
                       Det(q[1], q[2], q[3], q[4]))
           @@ q[4] :> Rat(problem.constraintMatrix[q[1]][q[3]] * problem.rightHandSide[q[2]]
                            - problem.rightHandSide[q[1]] * problem.constraintMatrix[q[2]][q[3]],
                          Det(q[1], q[2], q[3], q[4]))) :
     q \in {q \in (1..problem.numConstraints) \X (1..problem.numConstraints)
                    \X (1..problem.numVariables) \X (1..problem.numVariables) :
              q[1] < q[2] /\ q[3] < q[4] /\ Det(q[1], q[2], q[3], q[4]) # 0}}

\* The feasible basic solutions of a problem with at most two constraints:
\* the feasible points whose support has independent columns.
FeasibleBasicSolutions ==
  {x \in {PointOf(<<>>)} \cup OneVariablePoints \cup TwoVariablePoints :
     FeasiblePoint(x)}

\* y has a strictly better objective value than x.
StrictlyBetter(y, x) ==
  IF problem.objectiveType = "min"
  THEN RLt(computeObjectiveFromX(y, problem.objectiveCoefficients),
           computeObjectiveFromX(x, problem.objectiveCoefficients))
  ELSE RLt(computeObjectiveFromX(x, problem.objectiveCoefficients),
           computeObjectiveFromX(y, problem.objectiveCoefficients))

\* solveAll returned a history whose last step is 'optimal'.
AutoSolvedOptimal ==
  /\ call.op = "solveAll"
  /\ Len(solution.steps) > 0
  /\ Last(solution.steps).solutionType = "optimal"

\* C11: when auto-solve returns a history whose last step is 'optimal', the
\* extracted x satisfies every equality constraint with all values >= 0 and
\* no feasible basic solution has a strictly better objective value.
OptimalIsFeasibleAndBest ==
  AutoSolvedOptimal
    => /\ FeasiblePoint(solution.x)
       /\ \A y \in FeasibleBasicSolutions : ~StrictlyBetter(y, solution.x)

\* C12: for every Solution auto-solve returns with a last step 'optimal', the
\* objective field equals the sum of objectiveCoefficients[i] * x[i], for min
\* and for max problems.
OptimalObjectiveIsSumOverX ==
  AutoSolvedOptimal
    => solution.objective
         = computeObjectiveFromX(solution.x, problem.objectiveCoefficients)

\* The problem with every objective coefficient negated and max and min
\* exchanged.
NegatedProblem ==
  [problem EXCEPT
     !.objectiveCoefficients = Arr([i \in 1..Len(problem.objectiveCoefficients) |->
                                  0 - problem.objectiveCoefficients[i]]),
     !.objectiveType = IF problem.objectiveType = "min" THEN "max" ELSE "min"]

\* What solveAll of the hook computes for problem p and starting basis b.
SolveAllOf(p, b) == IF Len(b) = 0 THEN solveArtificial(p) ELSE solveSimplex(p, b)

\* The values x and objective that solving the negated problem yields agree
\* with the hook's solution: the same x, the negated objective scalar.
AgreesWithNegated(other) ==
  other.returned => /\ other.x = solution.x
                    /\ other.objective = RNeg(solution.objective)

\* C13: solving a feasible problem as max c.x and as min (-c).x yields the
\* same x, and the stored objective of one is the negation of the other's.
NegatedObjectiveSameSolution ==
  (call.op = "solveAll" /\ FeasibleBasicSolutions # {})
    => AgreesWithNegated(SolveAllOf(NegatedProblem, basis))

\* The largest component of the directions tried as rays of the feasible set.
MaxRay == 3

\* The dot product of row a with the direction d, from variable j on.
RECURSIVE IntDot(_, _, _)
IntDot(a, d, j) ==
  IF j > Len(a) THEN 0 ELSE a[j] * d[j] + IntDot(a, d, j + 1)

\* d >= 0 keeps every constraint (A d = 0) and improves the objective: moving
\* along d from a feasible point stays feasible and improves without bound.
ImprovingRay(d) ==
  /\ \A i \in 1..problem.numConstraints : IntDot(problem.constraintMatrix[i], d, 1) = 0
  /\ IF problem.objectiveType = "max"
     THEN IntDot(problem.objectiveCoefficients, d, 1) > 0
     ELSE IntDot(problem.objectiveCoefficients, d, 1) < 0

\* The problem is feasible and its objective improves without bound.
UnboundedProblem ==
  /\ FeasibleBasicSolutions # {}
  /\ \E d \in [1..problem.numVariables -> 0..MaxRay] : ImprovingRay(d)

\* C14: for a problem whose objective can be improved without bound over its
\* feasible set, auto-solve ends with a last step 'unbounded'.
UnboundedProblemEndsUnbounded ==
  (call.op = "solveAll" /\ UnboundedProblem)
    => Last(solution.steps).solutionType = "unbounded"

\* --------------------------------------------------- the two-phase fixture
\* getExampleProblem2 of utils.ts, and the same constraints with the objective
\* min x1 - x2.
getExampleProblem2 ==
  Problem(5, 3, <<-1, 1, 0, 0, 0>>,
          <<<<2, -4, -1, 1, 0>>, <<4, -3, -1, 1, 1>>, <<1, 4, 1, 0, 1>>>>,
          <<-3, 6, 15>>, "min")

TwoPhaseFixtures ==
  {getExampleProblem2,
   [getExampleProblem2 EXCEPT !.objectiveCoefficients = <<1, -1, 0, 0, 0>>]}

\* The hook on the two-phase fixture, without a starting basis.
InitFixture ==
  /\ problem \in TwoPhaseFixtures
  /\ basis = <<>>
  /\ solution = [steps |-> <<>>, x |-> <<>>, method |-> "artificial", objective |-> Zero]
  /\ call = NoCall("init")

SpecFixture == InitFixture /\ [][Next]_vars

\* C15: auto-solving the two-phase fixture (2x1 - 4x2 - x3 + x4 = -3,
\* 4x1 - 3x2 - x3 + x4 + x5 = 6, x1 + 4x2 + x3 + x5 = 15) ends with a last
\* step 'optimal' whose x satisfies the three constraints.
FixtureConvergesToOptimal ==
  (call.op = "solveAll" /\ problem \in TwoPhaseFixtures /\ basis = <<>>)
    => /\ Last(solution.steps).solutionType = "optimal"
       /\ SatisfiesConstraints(solution.x)

\* solveAll has solved the fixture as stated, min x1 - x2, and ended optimal.
FixtureSolved ==
  /\ call.op = "solveAll"
  /\ problem.objectiveCoefficients = <<1, -1, 0, 0, 0>>
  /\ problem.numConstraints = 3
  /\ basis = <<>>
  /\ Last(solution.steps).solutionType = "optimal"

\* ------------------------------------------------------ a degenerate problem
\* Eight variables, two constraints with right-hand sides 0; x7 and x8 form
\* an identity basis.
CyclingProblem ==
  Problem(8, 2, <<3, 1, 0, -1, 0, -5, 0, 0>>,
          <<<<-3, 3, 0, -5, 1, 1, 1, 0>>, <<-2, 1, 1, -2, 0, 2, 0, 1>>>>,
          <<0, 0>>, "min")

CyclingBases == {<<7, 8>>, <<8, 7>>, <<5, 8>>, <<1, 2>>}

\* The hook on the degenerate problem with a starting basis.
InitCycling ==
  /\ problem = CyclingProblem
  /\ basis \in CyclingBases
  /\ solution = [steps |-> <<>>, x |-> <<>>, method |-> "artificial", objective |-> Zero]
  /\ call = NoCall("init")

SpecCycling == InitCycling /\ [][Next]_vars

\* Two steps of the history carry the same tableau and the earlier one is
\* 'not-solved': the pivots between them have led back to where they began.
RepeatsTableau(steps) ==
  \E i, j \in 1..Len(steps) :
    /\ i < j
    /\ steps[i].solutionType = "not-solved"
    /\ steps[i].matrix = steps[j].matrix
    /\ steps[i].z = steps[j].z

\* C16: auto-solve terminates on every problem and every starting basis:
\* its loop has stopped within MaxPivots further rounds, or it has at least
\* not come back to a tableau it already went through.
AutoSolveStopsOrMakesProgress ==
  \/ SolveAllOf(problem, basis).returned
  \/ ~RepeatsTableau(SolveAllOf(problem, basis).steps)

\* The outcomes a legitimate answer carries.
LegitimateOutcomes == {"optimal", "unbounded", "infeasible"}

\* What auto-solve reports for a run whose steps are given: it has returned,
\* and its last step is none of optimal, unbounded, infeasible.
ReportsNonConvergence(result) ==
  /\ result.returned
  /\ Last(result.steps).solutionType \notin LegitimateOutcomes

OnlyLastStepIsClassified ==
  call.called
    => \A i \in 1..(Len(call.result) - 1) : call.result[i].solutionType = "not-solved"

\* solveStepMode was given a history and returned a longer one.
SuccessfulAdvance ==
  /\ call.called
  /\ Len(call.previousSteps) > 0
  /\ Len(call.result) > Len(call.previousSteps)

\* C19: a successful advance returns the steps it was given unchanged in
\* matrix, z, potentialPivots, labels and solutionType; the only difference
\* is the selectedPivotIndex of the step that was last, set to the chosen
\* index.
AdvanceKeepsGivenSteps ==
  SuccessfulAdvance
    => \A i \in 1..Len(call.previousSteps) :
         call.result[i] =
           IF i < Len(call.previousSteps) THEN call.previousSteps[i]
           ELSE [call.previousSteps[i] EXCEPT
                   !.selectedPivotIndex =
                      <<ChosenPivotIndex(call.selectedPivotIndex)>>]

\* A history of two steps or more was advanced by its second potential pivot.
SecondPivotAdvanced ==
  /\ SuccessfulAdvance
  /\ Len(call.previousSteps) >= 2
  /\ call.selectedPivotIndex = <<One>>

\* Some reduced cost of the step, the last slot of z aside, is below -EPS.
HasNegativeReducedCost(step) ==
  \E j \in 0..(Len(step.z) - 2) : LtNegEps(At(step.z, j))

\* The solutionType the tableau of the step calls for.
ClassOf(step) ==
  IF ~HasNegativeReducedCost(step) THEN "optimal"
  ELSE IF Len(step.potentialPivots) = 0 THEN "unbounded"
  ELSE "not-solved"

\* C20: every step a call of solveStepMode has appended to the history is
\* 'optimal' when no reduced cost is below -EPS, 'unbounded' when one is and
\* there is no potential pivot, and 'not-solved' otherwise.
StepsAreClassifiedByTableau ==
  call.called
    => \A i \in (Len(call.previousSteps) + 1)..Len(call.result) :
         call.result[i].solutionType = ClassOf(call.result[i])

\* A call of solveStepMode has appended an 'optimal' step and behind it an
\* 'unbounded' one with a negative reduced cost, to a history that ended
\* 'not-solved'.
UnboundedStepAppended ==
  /\ call.called
  /\ Len(call.previousSteps) > 0
  /\ Last(call.previousSteps).solutionType = "not-solved"
  /\ Len(call.result) = Len(call.previousSteps) + 2
  /\ call.result[Len(call.result) - 1].solutionType = "optimal"
  /\ Last(call.result).solutionType = "unbounded"
  /\ HasNegativeReducedCost(Last(call.result))

\* ------------------------------------------------------- candidate search
\* The steps the last call of solveStepMode appended to the history.
AppendedSteps ==
  IF call.called
  THEN {call.result[i] : i \in (Len(call.previousSteps) + 1)..Len(call.result)}
  ELSE {}

\* Row r of the step is eligible for the ratio test of column c: the search
\* admits its coefficient there.
EligibleRow(step, r, c) == canLeaveBasis(Cell(step.matrix, r, c))

EligibleRows(step, c) ==
  {r \in 0..(Len(step.matrix) - 1) : EligibleRow(step, r, c)}

\* The columns that are candidates to enter: reduced cost below -EPS and an
\* eligible row.
CandidateColumns(step) ==
  {c \in 0..(Len(step.z) - 2) :
     LtNegEps(At(step.z, c)) /\ EligibleRows(step, c) # {}}

\* potentialPivots names each candidate column once, in increasing order,
\* and no other column.
ListsCandidateColumns(step) ==
  /\ {step.potentialPivots[k][2] : k \in 1..Len(step.potentialPivots)}
       = CandidateColumns(step)
  /\ \A k \in 1..(Len(step.potentialPivots) - 1) :
       step.potentialPivots[k][2] < step.potentialPivots[k + 1][2]

RatioOf(step, r, c) ==
  RDiv(Cell(step.matrix, r, Len(step.matrix[1]) - 1), Cell(step.matrix, r, c))

\* Row r is the first of the eligible rows of column c with the least ratio.
FirstMinimumRatioRow(step, r, c) ==
  /\ r \in EligibleRows(step, c)
  /\ \A q \in EligibleRows(step, c) :
       /\ ~RLt(RatioOf(step, q, c), RatioOf(step, r, c))
       /\ q < r => RLt(RatioOf(step, r, c), RatioOf(step, q, c))

\* C22: for each candidate column the row in potentialPivots attains the
\* least RHS(row) / coeff(row, col) over the eligible rows and is the lowest
\* such row.
PivotRowIsFirstMinimumRatio ==
  \A step \in AppendedSteps :
    \A k \in 1..Len(step.potentialPivots) :
      FirstMinimumRatioRow(step, step.potentialPivots[k][1],
                           step.potentialPivots[k][2])

\* A step was appended in which two eligible rows of a candidate column tie
\* for the least ratio and the pair names the upper one.
RatioTieBroken ==
  \E step \in AppendedSteps :
    \E k \in 1..Len(step.potentialPivots) :
      \E q \in EligibleRows(step, step.potentialPivots[k][2]) :
        /\ q > step.potentialPivots[k][1]
        /\ RatioOf(step, q, step.potentialPivots[k][2])
             = RatioOf(step, step.potentialPivots[k][1], step.potentialPivots[k][2])

\* ------------------------------------------------ data near the tolerance
\* A problem whose data are multiples of EPS / 2 is held by its multipliers:
\* the entry k stands for k * EPS / 2.  buildMatrix, normalizeRhs and
\* buildTargetFunction only copy, negate and add, and a ratio is the quotient
\* of two entries, so they act on the multipliers as on the numbers; only the
\* comparisons with EPS need the unit.
UnitsPerEps == 2
MaxUnits == 3

\* x < -EPS and x > EPS on multipliers.
negUnits(x) == RLt(x, R(-UnitsPerEps))
posUnits(x) == RLt(R(UnitsPerEps), x)

canLeaveBasisUnits(value) == ~negUnits(value) /\ NotZero(value)

RECURSIVE ScanRowsUnits(_, _, _, _, _, _)
ScanRowsUnits(matrix, col, ratioEpsilon, row, leavingRow, minRatio) ==
  IF row >= Len(matrix) THEN leavingRow
  ELSE IF ~canLeaveBasisUnits(Cell(matrix, row, col))
       THEN ScanRowsUnits(matrix, col, ratioEpsilon, row + 1, leavingRow, minRatio)
  ELSE LET rhsIndex == Len(matrix[1]) - 1
           ratio == RDiv(Cell(matrix, row, rhsIndex), Cell(matrix, row, col))
       IN IF RLt(ratio, RSub(minRatio, ratioEpsilon))
          THEN ScanRowsUnits(matrix, col, ratioEpsilon, row + 1, row, ratio)
          ELSE ScanRowsUnits(matrix, col, ratioEpsilon, row + 1, leavingRow, minRatio)

RECURSIVE ScanColsUnits(_, _, _, _)
ScanColsUnits(matrix, z, ratioEpsilon, col) ==
  IF col >= Len(z) - 1 THEN <<>>
  ELSE LET rest == ScanColsUnits(matrix, z, ratioEpsilon, col + 1)
           leavingRow == ScanRowsUnits(matrix, col, ratioEpsilon, 0, -1, Infinity)
       IN IF negUnits(At(z, col)) /\ leavingRow # -1
          THEN <<<<leavingRow, col>>>> \o rest
          ELSE rest

findPotentialPivotsUnits(matrix, z, ratioEpsilon) ==
  [potentialPivots |-> ScanColsUnits(matrix, z, ratioEpsilon, 0),
   hasNegative |-> \E col \in 0..(Len(z) - 2) : negUnits(At(z, col))]

\* One variable, two constraints, every entry a few half tolerances.
NearEpsProblems ==
  {Problem(1, 2, <<0>>, <<<<a1>>, <<a2>>>>, <<b1, b2>>, "min") :
     a1 \in -MaxUnits..MaxUnits, a2 \in -MaxUnits..(MaxUnits + 1),
     b1 \in -1..1, b2 \in {0, MaxUnits + 1}}

InitNearEps ==
  /\ problem \in NearEpsProblems
  /\ basis = <<>>
  /\ solution = [steps |-> <<>>, x |-> <<>>, method |-> "artificial", objective |-> Zero]
  /\ call = NoCall("init")

\* The first pivot search of the two-phase method: appendNextSnapshot on the
\* state of createInitialArtificialState.
FirstSearchNearEps ==
  /\ ~call.called
  /\ \E state \in {createInitialArtificialState(problem)} :
       \E found \in {findPotentialPivotsUnits(state.matrix, state.z, Zero)} :
         call' = [NoCall("findPotentialPivots") EXCEPT
                    !.called = TRUE,
                    !.stateBefore = state,
                    !.result = found.potentialPivots]
  /\ UNCHANGED <<problem, basis, solution>>

\* The pivot of solveStepMode on that state with potentialPivots[0].
\* performPivot divides the pivot row by the pivot element, so the pivot row
\* of stateAfter holds plain numbers (quotients of two multipliers); it
\* subtracts a multiple of that row from every other row and from z, which
\* stay multipliers of EPS / 2.
FirstPivotNearEps ==
  /\ call.op = "findPotentialPivots"
  /\ call.called
  /\ Len(call.result) > 0
  /\ call' = [call EXCEPT
                !.op = "applyPivotToState",
                !.selectedPivotIndex = <<Zero>>,
                !.stateAfter = applyPivotToState(call.stateBefore, call.result[1],
                                                 "artificial")]
  /\ UNCHANGED <<problem, basis, solution>>

NextNearEps == FirstSearchNearEps \/ FirstPivotNearEps

SpecNearEps == InitNearEps /\ [][NextNearEps]_vars

\* C23: no pair of potentialPivots names a cell that is zero, negative or
\* within EPS of zero: the coefficient of every chosen cell is greater than
\* EPS.
PivotCellsExceedEps ==
  call.op = "findPotentialPivots" =>
    \A k \in 1..Len(call.result) :
      posUnits(Cell(call.stateBefore.matrix, call.result[k][1], call.result[k][2]))

\* Step i of a two-phase history belongs to Phase I: every step before it
\* was followed by a pivot, which removes a column.
PhaseOneStep(steps, i) ==
  \A j \in 1..(i - 1) :
    Len(steps[j + 1].colsVariables) < Len(steps[j].colsVariables)

\* Phase I ends at the step: no negative reduced cost and an artificial
\* objective that is zero within EPS.
PhaseOneEnds(step) ==
  /\ ~HasNegativeReducedCost(step)
  /\ zero(At(step.z, Len(step.z) - 1))

\* The step after step i is the Phase II tableau of step i: the same matrix
\* and labels, and z recomputed for the problem's objective.
MovedToPhaseTwo(steps, i) ==
  /\ i < Len(steps)
  /\ steps[i + 1].matrix = steps[i].matrix
  /\ steps[i + 1].rowVariables = steps[i].rowVariables
  /\ steps[i + 1].colsVariables = steps[i].colsVariables
  /\ steps[i + 1].z = rebuildOriginalZ(problem, steps[i].matrix,
                                       steps[i].rowVariables, steps[i].colsVariables)

\* C24: in a two-phase history every Phase I step that has no negative
\* reduced cost and a last z entry that is zero within EPS is followed by
\* the Phase II tableau: the same matrix with z recomputed for the real
\* objective.
PhaseOneEndMovesToPhaseTwo ==
  Len(basis) = 0 =>
    \A i \in 1..Len(solution.steps) :
      (PhaseOneStep(solution.steps, i) /\ PhaseOneEnds(solution.steps[i]))
        => MovedToPhaseTwo(solution.steps, i)

\* A two-phase history in which Phase I ended and Phase II began.
PhaseTwoBegan ==
  /\ Len(basis) = 0
  /\ \E i \in 1..Len(solution.steps) :
       /\ PhaseOneStep(solution.steps, i)
       /\ PhaseOneEnds(solution.steps[i])
       /\ MovedToPhaseTwo(solution.steps, i)

\* Step k of a two-phase history was produced after the move to Phase II.
AfterPhaseOne(steps, k) ==
  \E i \in 1..(k - 1) :
    PhaseOneStep(steps, i) /\ PhaseOneEnds(steps[i]) /\ MovedToPhaseTwo(steps, i)

\* C25: in every step produced after the move from Phase I to Phase II no
\* row label is an artificial variable (an index above numVariables).
PhaseTwoBasisIsReal ==
  Len(basis) = 0 =>
    \A k \in 1..Len(solution.steps) :
      AfterPhaseOne(solution.steps, k) =>
        \A r \in 1..Len(solution.steps[k].rowVariables) :
          ParseIndex(solution.steps[k].rowVariables[r]) <= problem.numVariables

\* The labels of a step, columns and rows together.
LabelsOf(step) ==
  {step.colsVariables[j] : j \in 1..Len(step.colsVariables)}
    \cup {step.rowVariables[r] : r \in 1..Len(step.rowVariables)}

\* C26: in every step of the history every real variable x1..xn is a column
\* label or a row label.
EveryRealVariablePresent ==
  \A k \in 1..Len(solution.steps) :
    \A v \in 1..problem.numVariables :
      Label(v) \in LabelsOf(solution.steps[k])

\* The step of a basis that could not be canonicalized: matrix [[]], z [].
EmptyInfeasibleMarker(step) == step.matrix = <<<<>>>>

\* The shape of a tableau with numConstraints rows and one column for each
\* column label, then the right-hand side.
WellShaped(step) ==
  /\ Len(step.matrix) = problem.numConstraints
  /\ Len(step.rowVariables) = problem.numConstraints
  /\ \A r \in 1..Len(step.matrix) :
       Len(step.matrix[r]) = Len(step.colsVariables) + 1
  /\ Len(step.z) = Len(step.colsVariables) + 1

\* C27: every step of the history other than the empty infeasible marker has
\* numConstraints matrix rows and row labels, and |colsVariables| + 1
\* entries in every matrix row and in z.
StepsAreWellShaped ==
  \A k \in 1..Len(solution.steps) :
    ~EmptyInfeasibleMarker(solution.steps[k]) => WellShaped(solution.steps[k])

\* The basic point of a step: each row label takes the right-hand side of
\* its row (of the last such row when a label repeats); every other
\* variable is 0.
BasicPoint(step) ==
  [l \in {step.rowVariables[r] : r \in 1..Len(step.rowVariables)} |->
     LET r == CHOOSE q \in 1..Len(step.rowVariables) :
                /\ step.rowVariables[q] = l
                /\ \A p \in (q + 1)..Len(step.rowVariables) : step.rowVariables[p] # l
     IN Cell(step.matrix, r - 1, Len(step.matrix[r]) - 1)]

\* The artificial variable of constraint i at x: it enters the normalized
\* row with coefficient 1, so the row as given with the sign of its RHS.
\* Only the two-phase method has artificial variables.
ArtificialTerm(x, i) ==
  IF Len(basis) # 0 THEN Zero
  ELSE RMul(R(IF problem.rightHandSide[i] < 0 THEN -1 ELSE 1),
            ValueOf(x, problem.numVariables + i))

\* The basic point of the step satisfies every constraint equation.
CanonicalForm(step) ==
  \E x \in {BasicPoint(step)} :
    \A i \in 1..problem.numConstraints :
      RAdd(RowDot(x, i, 1), ArtificialTerm(x, i)) = R(problem.rightHandSide[i])

\* The basic point of every step of the history that carries a tableau
\* satisfies the constraint equations.
EveryStepIsCanonical ==
  \A k \in 1..Len(solution.steps) :
    ~EmptyInfeasibleMarker(solution.steps[k]) => CanonicalForm(solution.steps[k])

\* A problem whose first row has a zero in the column of x1, so that
\* canonicalizing on a basis that starts with x1 swaps the two rows:
\* min -x3 with x2 + x3 = 1 and x1 + x3 = 2.
SwapProblem ==
  Problem(3, 2, <<0, 0, -1>>, <<<<0, 1, 1>>, <<1, 0, 1>>>>, <<1, 2>>, "min")

InitSwap ==
  /\ problem = SwapProblem
  /\ basis \in Bases(SwapProblem)
  /\ solution = [steps |-> <<>>, x |-> <<>>, method |-> "artificial", objective |-> Zero]
  /\ call = NoCall("init")

SpecSwap == InitSwap /\ [][Next]_vars

\* C28: the tableau of every step is a canonical form of the system: its
\* basic point satisfies every constraint equation, the artificial
\* variables counted in Phase I.  Stated for the histories of the two-phase
\* method and of a well-formed starting basis, after canonicalization and
\* after every pivot.
StepsAreCanonical ==
  (Len(basis) = 0 \/ WellFormedBasis) => EveryStepIsCanonical

\* Step k of the history is a Phase II step: on the two-phase path it was
\* produced after the move to Phase II; on the path of a well-formed
\* starting basis every step that carries a tableau is one.
PhaseTwoStep(k) ==
  IF Len(basis) = 0 THEN AfterPhaseOne(solution.steps, k)
  ELSE WellFormedBasis /\ ~EmptyInfeasibleMarker(solution.steps[k])

\* The z-row recomputed from the problem's objective, the step's matrix and
\* its labels, as restoreState recomputes it on either path.
RecomputedZ(step) ==
  rebuildOriginalZ(problem, step.matrix, step.rowVariables, step.colsVariables)

\* C29: in every Phase II step the stored z-row equals the z-row recomputed
\* from the problem's objective, the step's matrix and its labels, for min
\* and for max problems, on the two-phase and on the single-phase path.
StoredZIsRecomputedZ ==
  \A k \in 1..Len(solution.steps) :
    PhaseTwoStep(k) => solution.steps[k].z = RecomputedZ(solution.steps[k])

\* A Phase II step reached by a pivot on the two-phase path whose stored z
\* is the recomputed one.
PhaseTwoPivotKeepsZ ==
  /\ Len(basis) = 0
  /\ \E k \in 2..Len(solution.steps) :
       /\ AfterPhaseOne(solution.steps, k - 1)
       /\ Len(solution.steps[k].colsVariables) < Len(solution.steps[k - 1].colsVariables)
       /\ solution.steps[k].z = RecomputedZ(solution.steps[k])

\* Entry j of constraint i after RHS normalization: the row as given, or
\* negated when its right-hand side is negative; entry numVariables + 1 is
\* the right-hand side.
NormalizedEntry(i, j) ==
  (IF problem.rightHandSide[i] < 0 THEN -1 ELSE 1)
    * (IF j <= problem.numVariables THEN problem.constraintMatrix[i][j]
       ELSE problem.rightHandSide[i])

\* The sum of column j of the normalized constraints, from row i on.
RECURSIVE NormalizedColumnSum(_, _)
NormalizedColumnSum(j, i) ==
  IF i > problem.numConstraints THEN 0
  ELSE NormalizedEntry(i, j) + NormalizedColumnSum(j, i + 1)

\* C30: the initial two-phase state, the first step of every two-phase
\* history, has z[j] equal to minus the sum over the rows of the normalized
\* entry of column j, the RHS column included, column labels x1..xn and row
\* labels x(n+1)..x(n+m).
InitialTwoPhaseState ==
  (Len(basis) = 0 /\ Len(solution.steps) > 0) =>
    /\ solution.steps[1].z
         = [j \in 1..(problem.numVariables + 1) |-> R(-NormalizedColumnSum(j, 1))]
    /\ solution.steps[1].colsVariables
         = [j \in 1..problem.numVariables |-> Label(j)]
    /\ solution.steps[1].rowVariables
         = [i \in 1..problem.numConstraints |-> Label(problem.numVariables + i)]

\* A two-phase history was started on a problem with several constraints,
\* one of which has a negative right-hand side.
TwoPhaseStartedWithNegativeRhs ==
  /\ Len(basis) = 0
  /\ Len(solution.steps) > 0
  /\ problem.numConstraints > 1
  /\ \E i \in 1..problem.numConstraints : problem.rightHandSide[i] < 0

\* One call of normalizeRhs: the matrix it returns (normalized) and the
\* content of the argument after the call (matrix).  The rows written to are
\* those of cloneM(matrix), so the argument keeps its content.
normalizeRhsCall(matrix) ==
  [normalized |-> normalizeRhs(cloneM(matrix)), matrix |-> matrix]

\* The matrices the program normalizes for the problem: the constraints with
\* their right-hand sides (two-phase method) and without them (method with a
\* starting basis).
NormalizedInputs == {buildMatrix(problem), buildMatrixWithoutRhs(problem)}

RhsOf(row) == At(row, Len(row) - 1)

NegatedRow(row) == [col \in 1..Len(row) |-> RNeg(row[col])]

\* out is the normalization of in.
IsNormalizationOf(out, in) ==
  /\ Len(out) = Len(in)
  /\ \A r \in 1..Len(in) :
       /\ RGe(RhsOf(out[r]), Zero)
       /\ out[r] = IF RLt(RhsOf(in[r]), Zero) THEN NegatedRow(in[r]) ELSE in[r]

\* C31: normalizeRhs returns a matrix whose right-hand sides are all >= 0,
\* each row being the input row, or its entrywise negation exactly when its
\* right-hand side was negative; a second application changes nothing and
\* the argument is not modified.
NormalizeRhsIsIdempotentNegation ==
  \A matrix \in NormalizedInputs :
    \E out \in {normalizeRhsCall(matrix)} :
      /\ IsNormalizationOf(out.normalized, matrix)
      /\ normalizeRhs(out.normalized) = out.normalized
      /\ out.matrix = matrix

\* A two-phase history was started from a matrix that normalizeRhs changed.
NormalizationNegatedARow ==
  /\ call.op = "startStepByStep"
  /\ call.called
  /\ Len(basis) = 0
  /\ call.stateBefore.matrix = normalizeRhsCall(buildMatrix(problem)).normalized
  /\ call.stateBefore.matrix # buildMatrix(problem)

\* One call of performPivot: the matrix it returns (result) and the content
\* of the argument after the call (matrix).  All writes go to the row copies
\* of matrix.map(row => [...row]).
performPivotCall(matrix, pivotRow, pivotCol) ==
  [result |-> performPivot(cloneM(matrix), pivotRow, pivotCol), matrix |-> matrix]

\* The tableau applyPivotToState hands to performPivot for a step: the rows
\* of the matrix, then the z row.
TableauOf(step) == Append(step.matrix, step.z)

\* out has the shape of in, and its column col is 1 in row pivotRow and 0
\* in every other row (rows and columns counted from 0).
IsPivotOf(out, in, pivotRow, pivotCol) ==
  /\ Len(out) = Len(in)
  /\ \A i \in 1..Len(in) :
       /\ Len(out[i]) = Len(in[i])
       /\ At(out[i], pivotCol) = IF i = pivotRow + 1 THEN R(1) ELSE Zero

\* C32: performPivot leaves its argument unchanged and returns a matrix of
\* the same shape whose pivot column is 1 in the pivot row and 0 in every
\* other row, for a nonzero pivot element.  Stated for every pair of
\* potentialPivots of every step of the history, on the tableau the program
\* pivots.
PivotGivesUnitColumn ==
  \A k \in 1..Len(solution.steps) :
    \A p \in 1..Len(solution.steps[k].potentialPivots) :
      \E pivotPoint \in {solution.steps[k].potentialPivots[p]} :
        NotZero(Cell(solution.steps[k].matrix, pivotPoint[1], pivotPoint[2])) =>
          \E out \in {performPivotCall(TableauOf(solution.steps[k]),
                                       pivotPoint[1], pivotPoint[2])} :
            /\ IsPivotOf(out.result, TableauOf(solution.steps[k]),
                         pivotPoint[1], pivotPoint[2])
            /\ out.matrix = TableauOf(solution.steps[k])

\* A pivot of method 'simplex' was applied on a tableau with several rows:
\* the step it produced keeps the pivot column, which is a unit column.
UnitColumnAfterSimplexPivot ==
  /\ call.op = "solveStepByStep"
  /\ call.called
  /\ call.method = "simplex"
  /\ Len(call.result) = Len(call.previousSteps) + 1
  /\ Len(call.previousSteps) > 0
  /\ \E prev \in {call.result[Len(call.previousSteps)]} :
       /\ Len(prev.matrix) > 1
       /\ prev.selectedPivotIndex # NoIndex
       /\ IsPivotOf(TableauOf(call.result[Len(call.result)]), TableauOf(prev),
                    prev.potentialPivots[prev.selectedPivotIndex[1][1] + 1][1],
                    prev.potentialPivots[prev.selectedPivotIndex[1][1] + 1][2])

\* The rows of the step that carry a right-hand side and are labelled x_v.
RowsLabelled(step, v) ==
  {r \in 1..Len(step.rowVariables) :
     /\ step.rowVariables[r] = Label(v)
     /\ r <= Len(step.matrix)
     /\ Len(step.matrix[r]) > 0}

\* x is the extraction of the step: its keys are x1..xn, a real variable
\* that labels a row has the right-hand side of that row, every other one
\* is 0.
IsExtractionOf(x, step) ==
  /\ DOMAIN x = {Label(v) : v \in 1..problem.numVariables}
  /\ \A v \in 1..problem.numVariables :
       IF RowsLabelled(step, v) = {} THEN x[Label(v)] = Zero
       ELSE \A r \in RowsLabelled(step, v) :
              x[Label(v)] = Cell(step.matrix, r - 1, Len(step.matrix[r]) - 1)

\* C33: the mapping extracted from a history has exactly the keys x1..xn;
\* each real variable that labels a row of the last step has that row's
\* right-hand side and every other variable is 0, artificial row labels
\* adding nothing.
ExtractReadsLastStep ==
  (call.op = "solveStepByStep" /\ call.called) =>
    IsExtractionOf(solution.x, Last(solution.steps))

\* An extraction from a last step with both a real and an artificial row
\* label, the real one at a nonzero level.
ExtractedWithArtificialInBasis ==
  /\ call.op = "solveStepByStep"
  /\ call.called
  /\ \E r \in 1..Len(Last(solution.steps).rowVariables) :
       ParseIndex(Last(solution.steps).rowVariables[r]) > problem.numVariables
  /\ \E v \in 1..problem.numVariables :
       /\ RowsLabelled(Last(solution.steps), v) # {}
       /\ solution.x[Label(v)] # Zero

\* The steps solveStepMode returns for the first stepIndex + 1 steps of the
\* history and the pivot index.
AdvancedFrom(steps, stepIndex, pivotIndex) ==
  solveStepMode(problem, SubSeq(steps, 1, stepIndex + 1),
                InitialStateOf(problem, basis), MethodOf(basis), pivotIndex)

\* A solveStepByStep call with stepIndex inside the history: the steps
\* before stepIndex are kept, and the new history is the advance from the
\* first stepIndex + 1 steps, whatever followed them.
BranchesAtStepIndex ==
  (call'.op = "solveStepByStep" /\ call'.called) =>
    /\ call'.stepIndex \in 0..(Len(solution.steps) - 1)
    /\ Len(solution'.steps) > call'.stepIndex
    /\ SubSeq(solution'.steps, 1, call'.stepIndex)
         = SubSeq(solution.steps, 1, call'.stepIndex)
    /\ solution'.steps
         = AdvancedFrom(solution.steps, call'.stepIndex, call'.selectedPivotIndex)

\* A solveStepByStep call with stepIndex outside the history, and a
\* startStepByStep call on a history that is not empty, leave the state as
\* it is.
NoOpCallsKeepState ==
  /\ (call'.op = "solveStepByStep" /\ ~call'.called) => solution' = solution
  /\ (call'.op = "startStepByStep" /\ Len(solution.steps) > 0) => solution' = solution

\* C34: solveStepByStep with stepIndex inside the history discards the steps
\* after stepIndex, keeps those before it and advances from step stepIndex
\* with pivotIndex; with stepIndex outside the history, and for
\* startStepByStep on a history that is not empty, the state is unchanged.
StepByStepBranchesOrKeeps ==
  [][BranchesAtStepIndex /\ NoOpCallsKeepState]_vars

\* A call that advanced by one step from an inner step of the history, with
\* the second pivot of that step.
BranchedAtInnerStep ==
  /\ call.op = "solveStepByStep"
  /\ call.called
  /\ call.stepIndex >= 1
  /\ Len(solution.steps) = call.stepIndex + 2
  /\ call.selectedPivotIndex = <<R(1)>>

\* C35: no Phase I step of a two-phase history is 'unbounded': every column
\* of such a step with a reduced cost below -EPS has an eligible row.
PhaseOneIsNeverUnbounded ==
  Len(basis) = 0 =>
    \A k \in 1..Len(solution.steps) :
      PhaseOneStep(solution.steps, k) =>
        /\ solution.steps[k].solutionType # "unbounded"
        /\ \A c \in 0..(Len(solution.steps[k].z) - 2) :
             neg(At(solution.steps[k].z, c))
               => EligibleRows(solution.steps[k], c) # {}

\* A Phase I step reached by a pivot that still has a reduced cost below
\* -EPS, in a column with a row that is not eligible.
PhaseOneContinuesAfterPivot ==
  /\ Len(basis) = 0
  /\ \E k \in 2..Len(solution.steps) :
       /\ PhaseOneStep(solution.steps, k)
       /\ \E c \in 0..(Len(solution.steps[k].z) - 2) :
            /\ neg(At(solution.steps[k].z, c))
            /\ \E r \in 0..(Len(solution.steps[k].matrix) - 1) :
                 r \notin EligibleRows(solution.steps[k], c)

\* No label occurs twice in the list.
NoRepeatedLabel(labels) ==
  \A i, j \in 1..Len(labels) : i # j => labels[i] # labels[j]

\* The row labels and the column labels of the step are two disjoint lists
\* without repetition.
LabelsAreDisjoint(step) ==
  /\ NoRepeatedLabel(step.rowVariables)
  /\ NoRepeatedLabel(step.colsVariables)
  /\ \A r \in 1..Len(step.rowVariables), c \in 1..Len(step.colsVariables) :
       step.rowVariables[r] # step.colsVariables[c]

\* C36: in every step of the history no label is both a row label and a
\* column label and none occurs twice in either list, after the pivots of
\* method 'simplex' and of method 'artificial'.  Stated for the histories of
\* the two-phase method and of a well-formed starting basis.
RowAndColumnLabelsAreDisjoint ==
  (Len(basis) = 0 \/ WellFormedBasis) =>
    \A k \in 1..Len(solution.steps) : LabelsAreDisjoint(solution.steps[k])

\* Step k of the history was produced during Phase I: a step of the
\* two-phase method before the move to Phase II.  The method with a starting
\* basis has no Phase I.
ProducedInPhaseOne(k) == Len(basis) = 0 /\ PhaseOneStep(solution.steps, k)

\* C37: the phase restoreState infers for a step is the phase in which the
\* step was produced: artificialPhase is true exactly for the steps of
\* Phase I.  Stated for the steps an advance restores (those that are
\* 'not-solved'), in the histories of the two-phase method and of a
\* well-formed starting basis.
RestoredPhaseIsProducedPhase ==
  (Len(basis) = 0 \/ WellFormedBasis) =>
    \A k \in 1..Len(solution.steps) :
      solution.steps[k].solutionType = "not-solved" =>
        (restoreState(problem, solution.steps[k]).artificialPhase
           <=> ProducedInPhaseOne(k))

\* No right-hand-side entry of the step's matrix is below -EPS.
RhsIsNonNegative(step) ==
  \A r \in 1..Len(step.matrix) : ~neg(RhsOf(step.matrix[r]))

\* In every step of a two-phase history every right-hand-side entry of the
\* matrix is >= 0 within EPS (data away from the tolerance).
TwoPhaseRhsIsNonNegative ==
  Len(basis) = 0 =>
    \A k \in 1..Len(solution.steps) :
      ~EmptyInfeasibleMarker(solution.steps[k])
        => RhsIsNonNegative(solution.steps[k])

\* C38: a pivot taken from potentialPivots leaves every right-hand-side
\* entry >= 0 within EPS.  Stated for the first pivot of the two-phase method
\* on data near the tolerance: the pivot row of the result holds plain
\* numbers, the other rows multipliers of EPS / 2.
PivotKeepsRhsNonNegative ==
  call.op = "applyPivotToState" =>
    \A r \in 1..Len(call.stateAfter.matrix) :
      IF r = call.result[1][1] + 1
      THEN ~neg(RhsOf(call.stateAfter.matrix[r]))
      ELSE ~negUnits(RhsOf(call.stateAfter.matrix[r]))

\* The last entry of the step's z-row: the value of the current objective.
LastZ(step) == At(step.z, Len(step.z) - 1)

\* Step k + 1 of the history is the result of a pivot on step k, so both are
\* steps of one phase (the move to Phase II follows a step without a pivot).
PivotedFrom(k) ==
  /\ k < Len(solution.steps)
  /\ solution.steps[k].selectedPivotIndex # NoIndex

\* Between two consecutive steps of the same phase of a two-phase history
\* the last z entry never decreases (data away from the tolerance).
LastZNeverDecreases ==
  Len(basis) = 0 =>
    \A k \in 1..Len(solution.steps) :
      PivotedFrom(k) =>
        ~RLt(LastZ(solution.steps[k + 1]), LastZ(solution.steps[k]))

\* The same for the histories of a well-formed starting basis.
LastZNeverDecreasesFromBasis ==
  WellFormedBasis =>
    \A k \in 1..Len(solution.steps) :
      PivotedFrom(k) =>
        ~RLt(LastZ(solution.steps[k + 1]), LastZ(solution.steps[k]))

\* C39: a pivot taken from potentialPivots never decreases the last z entry.
\* Stated for the first pivot of the two-phase method on data near the
\* tolerance; z holds multipliers of EPS / 2 before and after the pivot.
PivotNeverDecreasesLastZ ==
  call.op = "applyPivotToState" =>
    ~RLt(LastZ(call.stateAfter), LastZ(call.stateBefore))

====
